---------------------------- MODULE Spec2Model ----------------------------
(***************************************************************************)
(* Model of the interview-question generators mainswapnil.py and           *)
(* mainswapnil1.py: the upstream pipeline of one "Generate Questions" form *)
(* submission, the decoding of the language model's reply with json.loads, *)
(* the session (questions, answers, idx) kept in st.session_state, the     *)
(* Q&A loop that walks through the questions, and the exports of the       *)
(* answers.  The clean-up of the reply in main.py is modelled next to the  *)
(* decoder.                                                                *)
(*                                                                         *)
(* A text is a sequence of characters, each character a one-element        *)
(* string; the character U+00E9 stands for a non-ASCII character.  A       *)
(* Python value is a record [t |-> type tag, v |-> payload].               *)
(***************************************************************************)
EXTENDS Integers, Sequences, FiniteSets, TLC

(***************************************************************************)
(* Bounds of the model.                                                    *)
(***************************************************************************)
\* longest question string that is enumerated
MaxStrLen == 2
\* longest question list that is enumerated
MaxQuestions == 2
\* longest arbitrary raw reply that is enumerated
MaxTextLen == 3

(***************************************************************************)
(* Python values.                                                          *)
(***************************************************************************)
PyStr(cs) == [t |-> "str", v |-> cs]

PyList(xs) == [t |-> "list", v |-> xs]

\* a dict is the sequence of its (key, value) pairs in insertion order
PyDict(kvs) == [t |-> "dict", v |-> kvs]

\* a number is kept as its lexeme
PyNum(cs) == [t |-> "num", v |-> cs]

PyConst(name) == [t |-> name, v |-> <<>>]

PyNone == PyConst("None")

(***************************************************************************)
(* json.dumps: the encoder of the standard library, with the defaults the  *)
(* scripts use (ensure_ascii, separators ", " and ": ", or "," and ": "    *)
(* under an indent).                                                       *)
(***************************************************************************)
\* code points of the non-ASCII characters of the model, as json writes them
UnicodeEscapes == [c \in {"U+00E9"} |-> <<"0", "0", "e", "9">>]

\* json.encoder.ESCAPE_DCT restricted to the characters of the model
ESCAPE_DCT == [c \in {"\"", "\\", "\n", "\t", "\r"} |->
                 CASE c = "\"" -> <<"\\", "\"">>
                   [] c = "\\" -> <<"\\", "\\">>
                   [] c = "\n" -> <<"\\", "n">>
                   [] c = "\t" -> <<"\\", "t">>
                   [] c = "\r" -> <<"\\", "r">>]

\* the replacement of one character by py_encode_basestring_ascii
EscapeChar(c) ==
  IF c \in DOMAIN ESCAPE_DCT THEN ESCAPE_DCT[c]
  ELSE IF c \in DOMAIN UnicodeEscapes THEN <<"\\", "u">> \o UnicodeEscapes[c]
  ELSE <<c>>

RECURSIVE EscapeAll(_)
EscapeAll(cs) ==
  IF cs = <<>> THEN <<>> ELSE EscapeChar(Head(cs)) \o EscapeAll(Tail(cs))

py_encode_basestring_ascii(cs) == <<"\"">> \o EscapeAll(cs) \o <<"\"">>

RECURSIVE Spaces(_)
Spaces(n) == IF n <= 0 THEN <<>> ELSE <<" ">> \o Spaces(n - 1)

\* newline and indentation of nesting level lvl; indent < 0 stands for None
NewlineIndent(indent, lvl) ==
  IF indent < 0 THEN <<>> ELSE <<"\n">> \o Spaces(indent * lvl)

\* a separator that loses the comma under an indent
ItemSeparatorNoComma(indent, lvl) ==
  IF indent < 0 THEN <<",", " ">> ELSE NewlineIndent(indent, lvl)

ItemSeparator(indent, lvl) ==
  IF indent < 0 THEN <<",", " ">> ELSE <<",">> \o NewlineIndent(indent, lvl)

RECURSIVE iterencode(_, _, _)
RECURSIVE iterencode_list(_, _, _, _)
RECURSIVE iterencode_dict(_, _, _, _)
\* the items of a list from position k on, each after its separator
iterencode_list(xs, k, indent, lvl) ==
  IF k > Len(xs) THEN <<>>
  ELSE (IF k = 1 THEN <<>> ELSE ItemSeparator(indent, lvl))
       \o iterencode(xs[k], indent, lvl)
       \o iterencode_list(xs, k + 1, indent, lvl)

iterencode_dict(kvs, k, indent, lvl) ==
  IF k > Len(kvs) THEN <<>>
  ELSE (IF k = 1 THEN <<>> ELSE ItemSeparator(indent, lvl))
       \o py_encode_basestring_ascii(kvs[k][1].v) \o <<":", " ">>
       \o iterencode(kvs[k][2], indent, lvl)
       \o iterencode_dict(kvs, k + 1, indent, lvl)

iterencode(o, indent, lvl) ==
  CASE o.t = "str" -> py_encode_basestring_ascii(o.v)
    [] o.t = "num" -> o.v
    [] o.t = "None" -> <<"n", "u", "l", "l">>
    [] o.t = "True" -> <<"t", "r", "u", "e">>
    [] o.t = "False" -> <<"f", "a", "l", "s", "e">>
    [] o.t = "nan" -> <<"N", "a", "N">>
    [] o.t = "inf" -> <<"I", "n", "f", "i", "n", "i", "t", "y">>
    [] o.t = "-inf" -> <<"-", "I", "n", "f", "i", "n", "i", "t", "y">>
    [] o.t = "list" ->
         IF o.v = <<>> THEN <<"[", "]">>
         ELSE <<"[">> \o NewlineIndent(indent, lvl + 1)
              \o iterencode_list(o.v, 1, indent, lvl + 1)
              \o NewlineIndent(indent, lvl) \o <<"]">>
    [] o.t = "dict" ->
         IF o.v = <<>> THEN <<"{", "}">>
         ELSE <<"{">> \o NewlineIndent(indent, lvl + 1)
              \o iterencode_dict(o.v, 1, indent, lvl + 1)
              \o NewlineIndent(indent, lvl) \o <<"}">>

json_dumps(o, indent) == iterencode(o, indent, 0)

(***************************************************************************)
(* json.loads: the decoder of the standard library (strict mode).  A       *)
(* result is [ok, val, end, err]: the value and the position after it, or  *)
(* the message of the JSONDecodeError and the position it reports.         *)
(***************************************************************************)
Ok(val, end) == [ok |-> TRUE, val |-> val, end |-> end, err |-> ""]

Err(msg, pos) == [ok |-> FALSE, val |-> PyNone, end |-> pos, err |-> msg]

\* json.decoder.WHITESPACE
WHITESPACE == {" ", "\t", "\n", "\r"}

\* the characters below U+0020 that the model has
ControlChars == {"\n", "\t", "\r"}

Digits == {"0", "1", "2", "3", "4", "5", "6", "7", "8", "9"}

HexDigits == Digits \cup {"a", "b", "c", "d", "e", "f", "A", "B", "C", "D", "E", "F"}

\* a table that keeps the letter of an escape instead of decoding it
BACKSLASH_Letter == [c \in {"\"", "\\", "/", "b", "f", "n", "r", "t"} |-> c]

\* json.decoder.BACKSLASH; b and f decode to characters the model leaves unnamed
BACKSLASH == [c \in {"\"", "\\", "/", "b", "f", "n", "r", "t"} |->
                CASE c = "\"" -> "\""
                  [] c = "\\" -> "\\"
                  [] c = "/" -> "/"
                  [] c = "b" -> "U+0008"
                  [] c = "f" -> "U+000C"
                  [] c = "n" -> "\n"
                  [] c = "r" -> "\r"
                  [] c = "t" -> "\t"]

\* the character of a \uXXXX escape: the inverse of UnicodeEscapes, and one
\* unnamed character for every other code point
DecodeUXXXX(hex) ==
  IF \E c \in DOMAIN UnicodeEscapes : UnicodeEscapes[c] = hex
  THEN CHOOSE c \in DOMAIN UnicodeEscapes : UnicodeEscapes[c] = hex
  ELSE "U+XXXX"

\* the character at position i, "" past the end (s[i:i+1])
CharAt(s, i) == IF i >= 1 /\ i <= Len(s) THEN s[i] ELSE ""

\* s[i:j+1] clipped to the text
Slice(s, i, j) == SubSeq(s, i, IF j > Len(s) THEN Len(s) ELSE j)

RECURSIVE SkipWS(_, _)
SkipWS(s, i) ==
  IF i <= Len(s) /\ s[i] \in WHITESPACE THEN SkipWS(s, i + 1) ELSE i

RECURSIVE SkipDigits(_, _)
SkipDigits(s, i) ==
  IF i <= Len(s) /\ s[i] \in Digits THEN SkipDigits(s, i + 1) ELSE i

\* py_scanstring from position i, the opening quote at position begin
RECURSIVE py_scanstring(_, _, _, _)
py_scanstring(s, i, begin, acc) ==
  IF i > Len(s) THEN Err("Unterminated string starting at", begin)
  ELSE IF s[i] = "\"" THEN Ok(PyStr(acc), i + 1)
  ELSE IF s[i] = "\\" THEN
    IF i + 1 > Len(s) THEN Err("Unterminated string starting at", begin)
    ELSE IF s[i + 1] = "u" THEN
      IF i + 5 <= Len(s) /\ \A k \in (i + 2)..(i + 5) : s[k] \in HexDigits
      THEN py_scanstring(s, i + 6, begin,
                         Append(acc, DecodeUXXXX(SubSeq(s, i + 2, i + 5))))
      ELSE Err("Invalid \\uXXXX escape", i)
    ELSE IF s[i + 1] \in DOMAIN BACKSLASH
      THEN py_scanstring(s, i + 2, begin, Append(acc, BACKSLASH[s[i + 1]]))
      ELSE Err("Invalid \\escape", i)
  ELSE IF s[i] \in ControlChars THEN Err("Invalid control character at", i)
  ELSE py_scanstring(s, i + 1, begin, Append(acc, s[i]))

\* json.scanner.NUMBER_RE, (-?(?:0|[1-9]\d*))(\.\d+)?([eE][-+]?\d+)?, matched
\* at position i: the position after the match, or i when there is none.
\* The exponent, from the position d of its first digit.
MatchExpDigits(s, e, d) ==
  IF CharAt(s, d) \in Digits THEN SkipDigits(s, d) ELSE e

MatchExp(s, e) ==
  IF CharAt(s, e) \in {"e", "E"}
  THEN MatchExpDigits(s, e, IF CharAt(s, e + 1) \in {"+", "-"} THEN e + 2 ELSE e + 1)
  ELSE e

MatchFrac(s, e) ==
  IF CharAt(s, e) = "." /\ CharAt(s, e + 1) \in Digits
  THEN MatchExp(s, SkipDigits(s, e + 1))
  ELSE MatchExp(s, e)

\* the integer part, from the position d after the sign
MatchInt(s, i, d) ==
  IF CharAt(s, d) = "0" THEN MatchFrac(s, d + 1)
  ELSE IF CharAt(s, d) \in Digits THEN MatchFrac(s, SkipDigits(s, d))
  ELSE i

MatchNumber(s, i) == MatchInt(s, i, IF CharAt(s, i) = "-" THEN i + 1 ELSE i)

\* the constants scan_once recognises by their spelling
Literals ==
  { <<<<"n", "u", "l", "l">>, PyNone>>,
    <<<<"t", "r", "u", "e">>, PyConst("True")>>,
    <<<<"f", "a", "l", "s", "e">>, PyConst("False")>>,
    <<<<"N", "a", "N">>, PyConst("nan")>>,
    <<<<"I", "n", "f", "i", "n", "i", "t", "y">>, PyConst("inf")>>,
    <<<<"-", "I", "n", "f", "i", "n", "i", "t", "y">>, PyConst("-inf")>> }

\* the text has the spelling w at position i
StartsWith(s, i, w) == Slice(s, i, i + Len(w) - 1) = w

\* the constant l = <<spelling, value>> read at position i
ScanLiteral(i, l) == Ok(l[2], i + Len(l[1]))

\* the number that ends before position end, if there is one
ScanNumber(s, i, end) ==
  IF end > i THEN Ok(PyNum(SubSeq(s, i, end - 1)), end)
  ELSE Err("StopIteration", i)

\* a StopIteration of scan_once becomes "Expecting value"
ExpectingValue(r) ==
  IF r.err = "StopIteration" THEN Err("Expecting value", r.end) ELSE r

\* a dict keeps one pair per key: a repeated key keeps its place and takes
\* the later value
DictSet(kvs, key, val) ==
  IF \E k \in 1..Len(kvs) : kvs[k][1] = key
  THEN [k \in 1..Len(kvs) |-> IF kvs[k][1] = key THEN <<key, val>> ELSE kvs[k]]
  ELSE Append(kvs, <<key, val>>)

RECURSIVE scan_once(_, _)
RECURSIVE JSONArray(_, _, _)
RECURSIVE ArrayValue(_, _, _)
RECURSIVE ArrayDelimiter(_, _, _)
RECURSIVE JSONObject(_, _, _)
RECURSIVE ObjectKey(_, _, _)
RECURSIVE ObjectColon(_, _, _, _)
RECURSIVE ObjectValue(_, _, _, _)
RECURSIVE ObjectDelimiter(_, _, _)
\* json.scanner.py_make_scanner._scan_once; StopIteration is an error result
scan_once(s, i) ==
  IF CharAt(s, i) = "" THEN Err("StopIteration", i)
  ELSE IF CharAt(s, i) = "\"" THEN py_scanstring(s, i + 1, i, <<>>)
  ELSE IF CharAt(s, i) = "{" THEN
    IF CharAt(s, SkipWS(s, i + 1)) = "}" THEN Ok(PyDict(<<>>), SkipWS(s, i + 1) + 1)
    ELSE JSONObject(s, SkipWS(s, i + 1), <<>>)
  ELSE IF CharAt(s, i) = "[" THEN
    IF CharAt(s, SkipWS(s, i + 1)) = "]" THEN Ok(PyList(<<>>), SkipWS(s, i + 1) + 1)
    ELSE JSONArray(s, SkipWS(s, i + 1), <<>>)
  ELSE IF \E l \in Literals : StartsWith(s, i, l[1])
    THEN ScanLiteral(i, CHOOSE l \in Literals : StartsWith(s, i, l[1]))
  ELSE ScanNumber(s, i, MatchNumber(s, i))

\* json.decoder.JSONArray: the loop from the position i of the next value
JSONArray(s, i, values) == ArrayValue(s, values, scan_once(s, i))

\* the value r was scanned: append it and skip to the delimiter
ArrayValue(s, values, r) ==
  IF ~r.ok THEN ExpectingValue(r)
  ELSE ArrayDelimiter(s, Append(values, r.val), SkipWS(s, r.end))

\* the delimiter at position j: the end of the array or a comma
ArrayDelimiter(s, values, j) ==
  IF CharAt(s, j) = "]" THEN Ok(PyList(values), j + 1)
  ELSE IF CharAt(s, j) # "," THEN Err("Expecting ',' delimiter", j)
  ELSE JSONArray(s, SkipWS(s, j + 1), values)

\* json.decoder.JSONObject: the loop from the position i of the next key
JSONObject(s, i, pairs) ==
  IF CharAt(s, i) # "\"" THEN
    Err("Expecting property name enclosed in double quotes", i)
  ELSE ObjectKey(s, pairs, py_scanstring(s, i + 1, i, <<>>))

\* the key k was scanned: skip to the colon
ObjectKey(s, pairs, k) ==
  IF ~k.ok THEN k ELSE ObjectColon(s, pairs, k.val, SkipWS(s, k.end))

\* the colon at position c, and the value after it
ObjectColon(s, pairs, key, c) ==
  IF CharAt(s, c) # ":" THEN Err("Expecting ':' delimiter", c)
  ELSE ObjectValue(s, pairs, key, scan_once(s, SkipWS(s, c + 1)))

\* the value r was scanned: set the key and skip to the delimiter
ObjectValue(s, pairs, key, r) ==
  IF ~r.ok THEN ExpectingValue(r)
  ELSE ObjectDelimiter(s, DictSet(pairs, key, r.val), SkipWS(s, r.end))

\* the delimiter at position j: the end of the object or a comma
ObjectDelimiter(s, pairs, j) ==
  IF CharAt(s, j) = "}" THEN Ok(PyDict(pairs), j + 1)
  ELSE IF CharAt(s, j) # "," THEN Err("Expecting ',' delimiter", j)
  ELSE JSONObject(s, SkipWS(s, j + 1), pairs)

\* JSONDecoder.decode after raw_decode: nothing but whitespace may follow
DecodeEnd(s, r) ==
  IF ~r.ok THEN ExpectingValue(r)
  ELSE IF SkipWS(s, r.end) # Len(s) + 1 THEN Err("Extra data", SkipWS(s, r.end))
  ELSE r

\* json.loads(s): one value with nothing but whitespace around it
json_loads(s) == DecodeEnd(s, scan_once(s, SkipWS(s, 1)))

(***************************************************************************)
(* The clean-up of the job details reply in main.py: the part of the text  *)
(* that re.search(r'(\[|\{).*(\]|\})', content, re.DOTALL) matches, from   *)
(* the first opening bracket or brace to the last closing one.             *)
(***************************************************************************)
\* the position of the first "[" or "{" of the text, 0 if it has none
FirstOpener(T) ==
  IF \E i \in 1..Len(T) : T[i] \in {"[", "{"}
  THEN CHOOSE i \in 1..Len(T) :
         /\ T[i] \in {"[", "{"}
         /\ \A k \in 1..(i - 1) : T[k] \notin {"[", "{"}
  ELSE 0

\* the position of the last "]" or "}" of the text, 0 if it has none
LastCloser(T) ==
  IF \E j \in 1..Len(T) : T[j] \in {"]", "}"}
  THEN CHOOSE j \in 1..Len(T) :
         /\ T[j] \in {"]", "}"}
         /\ \A k \in (j + 1)..Len(T) : T[k] \notin {"]", "}"}
  ELSE 0

\* the search matches when a closer follows the first opener
json_match(T) == FirstOpener(T) > 0 /\ LastCloser(T) > FirstOpener(T)

\* json_match.group(0) if the search matched, the whole content otherwise
json_str(T) ==
  IF json_match(T) THEN SubSeq(T, FirstOpener(T), LastCloser(T)) ELSE T

(***************************************************************************)
(* The session and what one run of the script renders.                     *)
(***************************************************************************)
\* the two scripts that generate questions and walk through them
Apps == {"mainswapnil", "mainswapnil1"}

\* st.session_state.setdefault of questions, answers and idx
SessionDefaults == [questions |-> <<>>, answers |-> <<>>, idx |-> 0]

\* str(exc): the type decides the format, a JSONDecodeError shows its
\* message and the position, any other exception its message only
Exc(type, msg, pos) == [type |-> type, msg |-> msg, pos |-> pos]

NoExc == Exc("", "", 0)

\* one rendered element: its kind, its fixed text, the exception or number
\* formatted into the text, and the value it shows or offers
Element(kind, text, exc, n, content) ==
  [kind |-> kind, text |-> text, exc |-> exc, n |-> n, content |-> content]

StError(text, exc) == Element("error", text, exc, 0, PyNone)

KeyQuestion == PyStr(<<"q", "u", "e", "s", "t", "i", "o", "n">>)

KeyAnswer == PyStr(<<"a", "n", "s", "w", "e", "r">>)

\* {"question": question, "answer": answer}
AnswerRecord(question, answer) ==
  PyDict(<< <<KeyQuestion, question>>, <<KeyAnswer, answer>> >>)

\* d[key] of a dict that has the key
DictGet(d, key) == d.v[CHOOSE k \in 1..Len(d.v) : d.v[k][1] = key][2]

\* list(qs): the keys of the dict instead of its values
DictAsList(d) == [k \in 1..Len(d.v) |-> d.v[k][1]]

\* list(qs.values())
DictValues(d) == [k \in 1..Len(d.v) |-> d.v[k][2]]

\* a test that does not look at the list
TruthyAlways(xs) == TRUE

\* the truth value of a list
Truthy(xs) == Len(xs) > 0

(***************************************************************************)
(* "Generate questions": the run of the script after the form was          *)
(* submitted, up to the assignment of the session.  A form input gives the *)
(* class of every value the run reads: the fields of the form, the         *)
(* outcomes of the HTTP requests, the API key and what the chain returns.  *)
(***************************************************************************)
Reply(text) == [raised |-> FALSE, content |-> text]

\* chain.invoke raises instead of returning a message
Raised == [raised |-> TRUE, content |-> <<>>]

\* the results of requests.get for the READMEs of a profile, one per
\* listed repository: fetched, timed out, or answered with another status
\* than 200; a repository without a README answers 404
ReadmesSomeFetched == { <<"timeout", "ok">>, <<"ok", "bad_status", "ok">> }

\* the same for profiles of which no README is fetched
ReadmesNoneFetched == { <<"bad_status">>, <<"timeout", "bad_status">> }

\* a form whose upstream works: a profile URL, two repositories with a
\* README each, no portfolio URL, a name, an API key
HealthyInput(llm) ==
  [github_url |-> "profile", repos |-> "some", readmes |-> <<"ok", "ok">>,
   portfolio |-> "blank", student_name |-> "given", api_key |-> TRUE,
   llm |-> llm]

\* a run that ends in st.error and st.stop
Stopped(s, outcome, text, exc) ==
  [stored |-> FALSE, session |-> s, outcome |-> outcome,
   display |-> <<StError(text, exc)>>]

\* a store that leaves the answers of the previous walkthrough in place
StoreStateKeepAnswers(s, qs) == [s EXCEPT !.questions = qs, !.idx = 0]

\* a store that leaves the cursor of the previous walkthrough in place
StoreStateKeepIdx(s, qs) == [s EXCEPT !.questions = qs, !.answers = <<>>]

\* "store state": questions, answers and idx are assigned together
StoreState(s, qs) ==
  [s EXCEPT !.questions = qs, !.answers = <<>>, !.idx = 0]

\* a conversion that wraps whatever is not a list into a list
AsListLenient(app, val) ==
  IF val.t = "dict" THEN PyList(DictValues(val))
  ELSE IF val.t # "list" THEN PyList(<<val>>)
  ELSE val

\* isinstance(qs, list) after the conversion each script makes:
\* mainswapnil.py turns a dict into the list of its values
AsList(app, val) ==
  IF app = "mainswapnil" /\ val.t = "dict" THEN PyList(DictValues(val))
  ELSE val

NotAListMessage(app) ==
  IF app = "mainswapnil" THEN "Parsed JSON is not a list of questions."
  ELSE "LLM did not return a JSON array of questions."

\* a type check that takes a string for a list of one question
RequireListOrString(app, qs) ==
  IF qs.t = "str" THEN [ok |-> TRUE, qs |-> <<qs>>, exc |-> NoExc]
  ELSE IF qs.t # "list" THEN
    [ok |-> FALSE, qs |-> <<>>, exc |-> Exc("ValueError", NotAListMessage(app), 0)]
  ELSE [ok |-> TRUE, qs |-> qs.v, exc |-> NoExc]

\* the type check: anything but a list raises ValueError
RequireList(app, qs) ==
  IF qs.t # "list" THEN
    [ok |-> FALSE, qs |-> <<>>, exc |-> Exc("ValueError", NotAListMessage(app), 0)]
  ELSE [ok |-> TRUE, qs |-> qs.v, exc |-> NoExc]

\* the result r of json.loads: its error is raised, its value is checked
Decoded(app, r) ==
  IF ~r.ok THEN
    [ok |-> FALSE, qs |-> <<>>, exc |-> Exc("JSONDecodeError", r.err, r.end)]
  ELSE RequireList(app, AsList(app, r.val))

\* a try block that, when the reply does not decode, decodes the part of it
\* from the first opener to the last closer
ParseQuestionsWithFallback(app, llm) ==
  IF llm.raised THEN [ok |-> FALSE, qs |-> <<>>, exc |-> Exc("APIError", "", 0)]
  ELSE IF json_loads(llm.content).ok THEN Decoded(app, json_loads(llm.content))
  ELSE Decoded(app, json_loads(json_str(llm.content)))

\* the try block: chain.invoke, json.loads and the type check; the result
\* is the question list or the exception that the except clause catches
ParseQuestions(app, llm) ==
  IF llm.raised THEN [ok |-> FALSE, qs |-> <<>>, exc |-> Exc("APIError", "", 0)]
  ELSE Decoded(app, json_loads(llm.content))

ParseErrorText(app) ==
  IF app = "mainswapnil" THEN "Failed to parse questions from LLM response: "
  ELSE "Failed to generate questions: "

\* a handler that resets the session before it looks at the result
StoreOrStopEarly(app, s, p) ==
  IF ~p.ok
  THEN Stopped(StoreState(s, <<>>), "parse_failed", ParseErrorText(app), p.exc)
  ELSE [stored |-> TRUE, session |-> StoreState(s, p.qs),
        outcome |-> "stored", display |-> <<>>]

\* the except clause, or the store after the try block
StoreOrStop(app, s, p) ==
  IF ~p.ok THEN Stopped(s, "parse_failed", ParseErrorText(app), p.exc)
  ELSE [stored |-> TRUE, session |-> StoreState(s, p.qs),
        outcome |-> "stored", display |-> <<>>]

\* from the API key on, the same in both scripts
CallModelAndStore(app, s, in) ==
  IF ~in.api_key THEN
    Stopped(s, "no_api_key", "OPENAI_API_KEY environment variable not set.", NoExc)
  ELSE StoreOrStop(app, s, ParseQuestions(app, in.llm))

\* fetch_readme: the text of the README, "" after a RequestException or a
\* status other than 200
fetch_readme(result) == IF result = "ok" THEN "readme" ELSE ""

\* every repository with the text that fetch_readme returned for it
ReadmeTexts(readmes) ==
  [k \in 1..Len(readmes) |-> [repo |-> k, text |-> fetch_readme(readmes[k])]]

\* a loop that ends at the first README that could not be fetched
GatherReadmesUntilFailure(readmes) ==
  SelectSeq(ReadmeTexts(readmes),
            LAMBDA d : \A j \in 1..d.repo : fetch_readme(readmes[j]) # "")

\* "gather READMEs": the loop asks for the README of every repository and
\* keeps the texts that are not empty
GatherReadmes(readmes) ==
  SelectSeq(ReadmeTexts(readmes), LAMBDA d : d.text # "")

\* the corpus check, and the rest of the generation
AfterReadmes(app, s, in, docs) ==
  IF docs = <<>> THEN
    Stopped(s, "no_readmes", "No READMEs found in the user's repositories.", NoExc)
  ELSE CallModelAndStore(app, s, in)

Generate(app, s, in) ==
  IF app = "mainswapnil" THEN
    IF in.github_url = "blank" THEN
      Stopped(s, "input_invalid", "GitHub URL is required.", NoExc)
    ELSE IF in.github_url = "other_host" THEN
      Stopped(s, "input_invalid", "Enter a valid github.com URL.", NoExc)
    ELSE IF in.github_url = "not_profile" THEN
      Stopped(s, "input_invalid", "Provide a profile URL, not a repository URL.", NoExc)
    ELSE IF in.repos = "network_error" THEN
      Stopped(s, "fetch_failed", "Network error while fetching repositories: ",
              Exc("RequestException", "", 0))
    ELSE IF in.repos = "bad_status" THEN
      Stopped(s, "fetch_failed", "Failed to fetch repositories. Status ", NoExc)
    ELSE IF in.repos = "none" THEN
      Stopped(s, "no_repos", "No public repositories found for this user.", NoExc)
    ELSE AfterReadmes(app, s, in, GatherReadmes(in.readmes))
  ELSE
    IF in.student_name = "blank" THEN
      Stopped(s, "input_invalid", "Please enter your name.", NoExc)
    ELSE CallModelAndStore(app, s, in)

\* one call of requests.get: what was asked for (the repository list, the
\* README of the repository number repo, the portfolio page), the result,
\* and the number of repositories a fetched list has
Request(url, repo, result, listed) ==
  [url |-> url, repo |-> repo, result |-> result, listed |-> listed]

\* the request for the repository list of the profile
ReposRequest(in) ==
  IF in.repos \in {"network_error", "bad_status"}
  THEN Request("repos", 0, in.repos, 0)
  ELSE Request("repos", 0, "ok",
               IF in.repos = "none" THEN 0 ELSE Len(in.readmes))

\* the requests of the loop over the repositories
ReadmeRequests(readmes) ==
  [k \in 1..Len(readmes) |-> Request("readme", k, readmes[k], 0)]

\* the calls of requests.get that one generation makes, in their order
Requests(app, in) ==
  IF app = "mainswapnil" THEN
    IF in.github_url # "profile" THEN <<>>
    ELSE IF in.repos # "some" THEN <<ReposRequest(in)>>
    ELSE <<ReposRequest(in)>> \o ReadmeRequests(in.readmes)
  ELSE
    IF in.student_name = "blank" \/ in.portfolio = "blank" THEN <<>>
    ELSE <<Request("portfolio", 0,
                   IF in.portfolio = "fetched" THEN "ok" ELSE in.portfolio, 0)>>

(***************************************************************************)
(* The Q&A loop.                                                           *)
(***************************************************************************)
\* an append that forgets to advance the cursor
SubmitAnswerNoAdvance(s, answer) ==
  [s EXCEPT !.answers = Append(@, AnswerRecord(s.questions[s.idx + 1], answer))]

\* an append that pairs the answer with the first question
SubmitAnswerFirstQuestion(s, answer) ==
  [s EXCEPT !.answers = Append(@, AnswerRecord(s.questions[1], answer)),
            !.idx = @ + 1]

\* a submission that puts the new answer in front of the earlier ones
SubmitAnswerInFront(s, answer) ==
  [s EXCEPT !.answers = <<AnswerRecord(s.questions[s.idx + 1], answer)>> \o @,
            !.idx = @ + 1]

\* answers.append({"question": question, "answer": answer}); idx += 1
SubmitAnswer(s, answer) ==
  [s EXCEPT !.answers = Append(@, AnswerRecord(s.questions[s.idx + 1], answer)),
            !.idx = @ + 1]

\* the branch of a question that is still to be answered
QuestionView(s) ==
  << Element("subheader", "Question ", NoExc, s.idx + 1, PyNone),
     Element("write", "", NoExc, 0, s.questions[s.idx + 1]),
     Element("text_area", "Your Answer", NoExc, s.idx, PyNone),
     Element("button", "Submit Answer", NoExc, 0, PyNone) >>

\* the download button of the JSON export
DownloadJSON(s) ==
  Element("download_button", "Download Q&A JSON", NoExc, 0,
          PyStr(json_dumps(PyList(s.answers), 2)))

\* a completion branch that offers the JSON export next to the PDF only
CompletedViewJsonWithPdf(app, fpdf, s) ==
  IF app = "mainswapnil" THEN
    << Element("success", "All questions answered.", NoExc, 0, PyNone),
       Element("write", "", NoExc, 0, PyList(s.answers)),
       DownloadJSON(s) >>
  ELSE
    << Element("success", "All questions answered. Thank you!", NoExc, 0, PyNone),
       Element("info", "You can download your responses below.", NoExc, 0, PyNone) >>
    \o IF fpdf
       THEN << Element("download_button", "Download Q&A PDF", NoExc, 0, PyNone),
               DownloadJSON(s) >>
       ELSE << Element("warning", "Install the 'fpdf' package to enable PDF downloads (pip install fpdf).",
                       NoExc, 0, PyNone) >>

\* the branch of a walkthrough that has reached the end of the list
CompletedView(app, fpdf, s) ==
  IF app = "mainswapnil" THEN
    << Element("success", "All questions answered.", NoExc, 0, PyNone),
       Element("write", "", NoExc, 0, PyList(s.answers)),
       DownloadJSON(s) >>
  ELSE
    << Element("success", "All questions answered. Thank you!", NoExc, 0, PyNone),
       Element("info", "You can download your responses below.", NoExc, 0, PyNone),
       IF fpdf
       THEN Element("download_button", "Download Q&A PDF", NoExc, 0, PyNone)
       ELSE Element("warning", "Install the 'fpdf' package to enable PDF downloads (pip install fpdf).",
                    NoExc, 0, PyNone),
       DownloadJSON(s) >>

\* a loop that handles the button before it looks at the cursor
QALoopUnguarded(app, fpdf, s, clicked, answer) ==
  IF Truthy(s.questions) THEN
    IF clicked THEN
      [session |-> [s EXCEPT
                      !.answers = Append(@, AnswerRecord(
                                    IF s.idx < Len(s.questions)
                                    THEN s.questions[s.idx + 1] ELSE PyNone,
                                    answer)),
                      !.idx = @ + 1],
       display |-> <<>>, rerun |-> TRUE]
    ELSE IF s.idx < Len(s.questions)
      THEN [session |-> s, display |-> QuestionView(s), rerun |-> FALSE]
      ELSE [session |-> s, display |-> CompletedView(app, fpdf, s), rerun |-> FALSE]
  ELSE [session |-> s, display |-> <<>>, rerun |-> FALSE]

\* one pass over the Q&A loop; clicked is the value of the Submit Answer
\* button in this run, answer the value of the text area
QALoop(app, fpdf, s, clicked, answer) ==
  IF Truthy(s.questions) THEN
    IF s.idx < Len(s.questions) THEN
      IF clicked
      THEN [session |-> SubmitAnswer(s, answer), display |-> <<>>, rerun |-> TRUE]
      ELSE [session |-> s, display |-> QuestionView(s), rerun |-> FALSE]
    ELSE [session |-> s, display |-> CompletedView(app, fpdf, s), rerun |-> FALSE]
  ELSE [session |-> s, display |-> <<>>, rerun |-> FALSE]

(***************************************************************************)
(* One run of the script for one event of the browser: the form was        *)
(* submitted, the Submit Answer button was pressed, or neither.  A rerun   *)
(* requested by the Q&A loop is a further run without an event.            *)
(***************************************************************************)
NoEvent == [submitted |-> FALSE, form |-> HealthyInput(Raised),
            clicked |-> FALSE, answer |-> PyStr(<<>>)]

FormSubmitted(in) == [NoEvent EXCEPT !.submitted = TRUE, !.form = in]

ButtonClicked(answer) == [NoEvent EXCEPT !.clicked = TRUE, !.answer = answer]

\* the run that st.rerun starts after a submission: q is its Q&A loop
Rerendered(q) ==
  [session |-> q.session, display |-> q.display, outcome |-> "submitted"]

\* the end of a run whose Q&A loop gave q
AfterLoop(app, fpdf, ev, outcome, q) ==
  IF q.rerun THEN Rerendered(QALoop(app, fpdf, q.session, FALSE, ev.answer))
  ELSE [session |-> q.session, display |-> q.display,
        outcome |-> IF ev.submitted THEN outcome
                    ELSE IF ev.clicked THEN "ignored" ELSE "rendered"]

\* the part of the script below "Generate questions"
RunLoop(app, fpdf, s, ev, outcome) ==
  AfterLoop(app, fpdf, ev, outcome, QALoop(app, fpdf, s, ev.clicked, ev.answer))

\* st.stop ends the run; after the store the script goes on to the Q&A loop
AfterGenerate(app, fpdf, ev, g) ==
  IF ~g.stored
  THEN [session |-> g.session, display |-> g.display, outcome |-> g.outcome]
  ELSE RunLoop(app, fpdf, g.session, ev, g.outcome)

RunScript(app, fpdf, s, ev) ==
  IF ev.submitted THEN AfterGenerate(app, fpdf, ev, Generate(app, s, ev.form))
  ELSE RunLoop(app, fpdf, s, ev, "none")

(***************************************************************************)
(* The inputs of the model.                                                *)
(***************************************************************************)
\* the sequences over S of length at most n
BoundedSeq(S, n) == UNION {[1..k -> S] : k \in 0..n}

\* what the user types into the text area; the empty answer is accepted
AnswerTexts == {PyStr(<<>>), PyStr(<<"y">>)}

\* the question lists of the walkthroughs: none, one, two and three
\* questions, with a repeated question
SampleQuestionLists ==
  { <<>>,
    <<PyStr(<<"a">>)>>,
    <<PyStr(<<"a">>), PyStr(<<"b", "\"">>)>>,
    <<PyStr(<<"b", "\"">>), PyStr(<<"a">>), PyStr(<<"b", "\"">>)>> }

\* replies that are not a JSON list: prose, a number, an object
SampleTexts ==
  { <<"a">>, <<"1">>, <<"{", "\"", "k", "\"", ":", " ", "\"", "a", "\"", "}">> }

\* replies that are a JSON value of another type than number: null, the
\* booleans, a string, and the constant NaN that json.loads accepts
ScalarTexts ==
  { <<"n", "u", "l", "l">>, <<"t", "r", "u", "e">>,
    <<"f", "a", "l", "s", "e">>, <<"\"", "a", "\"">>, <<"N", "a", "N">> }

SampleLLMs ==
  {Reply(json_dumps(PyList(Q), -1)) : Q \in SampleQuestionLists}
  \cup {Reply(T) : T \in SampleTexts \cup ScalarTexts} \cup {Raised}

\* the replies of the submissions with a failed request that the script
\* swallows: the sample lists, prose, and an exception of the chain
FaultLLMs ==
  {Reply(json_dumps(PyList(Q), -1)) : Q \in SampleQuestionLists}
  \cup {Reply(<<"a">>), Raised}

\* the inputs that differ from a healthy one in at most one field: healthy
\* ones with every reply of llms, the faults that let the generation go on
\* with the replies of faulty, the faults that stop it before the chain is
\* called with one reply
AllInputs(llms, faulty) ==
  {HealthyInput(l) : l \in llms}
  \cup {[HealthyInput(l) EXCEPT !.portfolio = f] :
          l \in faulty, f \in {"fetch_failed", "fetched"}}
  \cup {[HealthyInput(l) EXCEPT !.readmes = rs] :
          l \in faulty, rs \in ReadmesSomeFetched}
  \cup {[HealthyInput(Raised) EXCEPT !.readmes = rs] : rs \in ReadmesNoneFetched}
  \cup {[HealthyInput(Raised) EXCEPT !.github_url = u] :
          u \in {"blank", "other_host", "not_profile"}}
  \cup {[HealthyInput(Raised) EXCEPT !.repos = r] :
          r \in {"network_error", "bad_status", "none"}}
  \cup {[HealthyInput(Raised) EXCEPT !.student_name = "blank"]}
  \cup {[HealthyInput(Raised) EXCEPT !.api_key = FALSE]}

\* the characters of the enumerated question strings: a letter, the two
\* characters json escapes with a backslash, a control character and a
\* non-ASCII character
QChars == {"a", "\"", "\\", "\n", "U+00E9"}

\* longer strings in which escapes and delimiters meet
TrickyStrings ==
  { <<"\\", "n">>, <<"\\", "\"">>, <<"\"", ",", " ", "\"">>, <<"[", "a", "]">> }

\* the strings over QChars up to the bound, and the longer ones
QuestionStrings ==
  {PyStr(cs) : cs \in BoundedSeq(QChars, MaxStrLen) \cup TrickyStrings}

\* the strings of the lists that are enumerated by their shape
CoreStrings == {PyStr(<<>>), PyStr(<<"a">>), PyStr(<<"\\", "\"">>)}

\* every list over the core strings up to the bound (the empty list and
\* lists with repeated elements among them), and every enumerated string
\* alone, before and after each core string
QuestionLists ==
  BoundedSeq(CoreStrings, MaxQuestions)
  \cup {<<q>> : q \in QuestionStrings}
  \cup {<<q, c>> : q \in QuestionStrings, c \in CoreStrings}
  \cup {<<c, q>> : q \in QuestionStrings, c \in CoreStrings}

\* the characters of the enumerated raw replies
TextChars == {"a", "1", "\"", "[", "]", "{", "}", " "}

\* replies in which prose surrounds the encoding of a question list, as in
\* "Here are the questions:\n[...]": prose before, after, and on both sides
WrappedTexts ==
  UNION {{<<"a", ":", "\n">> \o json_dumps(PyList(Q), -1),
          json_dumps(PyList(Q), -1) \o <<"\n", "a">>,
          <<"a", "\n">> \o json_dumps(PyList(Q), -1) \o <<" ", "a">>} :
           Q \in SampleQuestionLists}

\* replies that are a JSON object: two keys that are not in alphabetical
\* order, and a key that is declared twice
MappingTexts ==
  { json_dumps(PyDict(<< <<PyStr(<<"k">>), PyStr(<<"b", "\"">>)>>,
                         <<PyStr(<<"j">>), PyStr(<<"a">>)>> >>), -1),
    <<"{", "\"", "k", "\"", ":", "\"", "a", "\"", ",",
           "\"", "k", "\"", ":", "\"", "b", "\"", "}">> }

RawTexts == BoundedSeq(TextChars, MaxTextLen) \cup WrappedTexts \cup MappingTexts

(***************************************************************************)
(* State.                                                                  *)
(***************************************************************************)
VARIABLES
  app,        \* the script that runs
  fpdf,       \* whether the import of FPDF succeeded
  inputs,     \* the form submissions, with their upstream outcomes, that
              \* can happen in this behaviour
  encoded,    \* the question lists whose JSON encodings are among the replies
  session,    \* st.session_state: questions, answers, idx
  display,    \* the elements the last run rendered below the form
  lastRun,    \* the event of the last run, its outcome, the reply of the
              \* chain and the session before the run
  loaded,     \* the question list of the last successful generation
  submitted,  \* the answers submitted since then, in order
  fresh,      \* a session that started from the defaults with the last
              \* successful generation and saw the same events since
  requests    \* the calls of requests.get of the last run, in their order

vars == <<app, fpdf, inputs, encoded, session, display, lastRun, loaded,
          submitted, fresh, requests>>

InitSession ==
  /\ session = SessionDefaults
  /\ display = <<>>
  /\ lastRun = [event |-> "start", outcome |-> "rendered", reply |-> Raised,
                before |-> SessionDefaults]
  /\ loaded = <<>>
  /\ submitted = <<>>
  /\ fresh = SessionDefaults
  /\ requests = <<>>

\* walkthroughs over the sample replies, with every upstream failure
Init ==
  /\ app \in Apps
  /\ fpdf \in BOOLEAN
  /\ inputs = AllInputs(SampleLLMs, FaultLLMs)
  /\ encoded = SampleQuestionLists
  /\ InitSession

\* one reply per behaviour, drawn from the encodings of the enumerated
\* question lists and from the enumerated raw texts; the upstream is healthy
InitParse ==
  /\ app \in Apps
  /\ fpdf = TRUE
  /\ \/ \E Q \in QuestionLists :
          /\ encoded = {Q}
          /\ inputs = {HealthyInput(Reply(json_dumps(PyList(Q), -1)))}
     \/ \E T \in RawTexts :
          /\ encoded = {}
          /\ inputs = {HealthyInput(Reply(T))}
  /\ InitSession

\* whether a generation with this outcome reached chain.invoke
LlmCalled(outcome) == outcome \in {"stored", "parse_failed"}

(***************************************************************************)
(* Actions: one run of the script per event.                               *)
(***************************************************************************)
\* the state after a generation: r is the run, p what the try block gave,
\* f the same run from the defaults
GenerateStep(in, r, p, f) ==
  /\ session' = r.session
  /\ display' = r.display
  /\ lastRun' = [event |-> "generate", outcome |-> r.outcome,
                 reply |-> IF LlmCalled(r.outcome) THEN in.llm ELSE Raised,
                 before |-> session]
  /\ loaded' = IF r.outcome = "stored" THEN p.qs ELSE loaded
  /\ submitted' = IF r.outcome = "stored" THEN <<>> ELSE submitted
  /\ fresh' = IF r.outcome = "stored" THEN f.session ELSE fresh
  /\ requests' = Requests(app, in)
  /\ UNCHANGED <<app, fpdf, inputs, encoded>>

\* the user submits the form
GenerateQuestions ==
  \E in \in inputs :
    GenerateStep(in, RunScript(app, fpdf, session, FormSubmitted(in)),
                 ParseQuestions(app, in.llm),
                 RunScript(app, fpdf, SessionDefaults, FormSubmitted(in)))

\* the state after a run for a press of the button: r is the run, f the
\* same run of the fresh session
PressStep(answer, r, f) ==
  /\ session' = r.session
  /\ display' = r.display
  /\ lastRun' = [event |-> "click", outcome |-> r.outcome, reply |-> Raised,
                 before |-> session]
  /\ submitted' = IF r.outcome = "submitted" THEN Append(submitted, answer)
                  ELSE submitted
  /\ fresh' = f.session
  /\ requests' = <<>>
  /\ UNCHANGED <<app, fpdf, inputs, encoded, loaded>>

\* the browser reports a press of the Submit Answer button
PressSubmitAnswer ==
  \E answer \in AnswerTexts :
    PressStep(answer, RunScript(app, fpdf, session, ButtonClicked(answer)),
              RunScript(app, fpdf, fresh, ButtonClicked(answer)))

\* the state after a run without an event
RerunStep(r, f) ==
  /\ session' = r.session
  /\ display' = r.display
  /\ lastRun' = [event |-> "rerun", outcome |-> r.outcome, reply |-> Raised,
                 before |-> session]
  /\ fresh' = f.session
  /\ requests' = <<>>
  /\ UNCHANGED <<app, fpdf, inputs, encoded, loaded, submitted>>

\* any other interaction reruns the script
Rerun ==
  RerunStep(RunScript(app, fpdf, session, NoEvent),
            RunScript(app, fpdf, fresh, NoEvent))

Next == GenerateQuestions \/ PressSubmitAnswer \/ Rerun

Spec == Init /\ [][Next]_vars

SpecParse == InitParse /\ [][Next]_vars


(***************************************************************************)
(* Properties.                                                             *)
(***************************************************************************)
\* the last run was a generation that stored a session
LastRunStored == lastRun.event = "generate" /\ lastRun.outcome = "stored"

\* the last run was a generation that stopped before the store
LastRunFailed == lastRun.event = "generate" /\ lastRun.outcome # "stored"

\* xs is an initial segment of ys
IsPrefix(xs, ys) == Len(xs) <= Len(ys) /\ SubSeq(ys, 1, Len(xs)) = xs

\* C1: in every reachable state the number of stored answers equals the
\* cursor, len(answers) == idx.
C1_AnswersMatchCursor == Len(session.answers) = session.idx

\* two answers are stored and a later generation has failed
C1_Witness ==
  /\ LastRunFailed
  /\ session.idx = 2
  /\ Len(session.answers) = 2

\* C2: once as many answers were submitted as the loaded list has
\* questions, the cursor is at the end of the list, there is one answer
\* per question, and the i-th answer pairs the i-th loaded question with
\* the i-th submitted text.
C2_AllAnswered ==
  Len(submitted) = Len(loaded) =>
    /\ session.idx = Len(session.questions)
    /\ Len(session.answers) = Len(loaded)
    /\ \A i \in 1..Len(loaded) :
         /\ DictGet(session.answers[i], KeyQuestion) = loaded[i]
         /\ DictGet(session.answers[i], KeyAnswer) = submitted[i]

\* a list of three questions, the first and the last the same, was answered
C2_Witness ==
  /\ Len(loaded) = 3
  /\ Len(submitted) = 3
  /\ loaded[1] = loaded[3]
  /\ submitted[1] # submitted[2]

\* C3: after a generation the session is the one a session started from
\* the defaults has after the same generation, and it stays equal to it
\* under the submissions that follow; answers and cursor of the earlier
\* walkthrough leave no trace.
C3_LoadEqualsFresh == session = fresh

\* a generation has replaced a walkthrough that had answers, with another list
C3_Witness ==
  /\ LastRunStored
  /\ Len(lastRun.before.answers) > 0
  /\ lastRun.before.questions # session.questions
  /\ Len(session.questions) > 0

\* C4: a generation that stops before the store (invalid input, failed
\* repository request, no repositories, no READMEs, no API key, reply not
\* parsable) leaves questions, answers and idx as they were.
C4_FailedGenerationKeepsSession ==
  [][LastRunFailed' => session' = session]_vars

\* the reply could not be parsed while a walkthrough was half way
C4_Witness ==
  /\ LastRunFailed
  /\ lastRun.outcome = "parse_failed"
  /\ session.idx = 1
  /\ Len(session.questions) = 2
  /\ lastRun.before = session

\* C5: no step appends to answers or increments the cursor unless the
\* cursor is below the length of the question list before the step.
C5_SubmitOnlyInProgress ==
  [][(Len(session'.answers) > Len(session.answers) \/ session'.idx > session.idx)
       => session.idx < Len(session.questions)]_vars

\* the button was reported pressed after the last question was answered
C5_Witness ==
  /\ lastRun.event = "click"
  /\ lastRun.outcome = "ignored"
  /\ session.idx = Len(session.questions)
  /\ session.idx > 0
  /\ session = lastRun.before

\* an element of the completion branch is on the page
ShowsCompletion(d) ==
  \E k \in 1..Len(d) : d[k].kind \in {"success", "download_button"}

\* C6 as stated: a generation that yields the empty list leaves a finished
\* walkthrough with no answers, and the completion and export branch is
\* rendered.
C6_EmptyLoadCompletes ==
  (LastRunStored /\ loaded = <<>>) =>
    /\ session.answers = <<>>
    /\ session.idx = Len(session.questions)
    /\ ShowsCompletion(display)

\* C6 as amended: a generation that yields the empty list stores the
\* session of the defaults (no questions, no answers, cursor 0) and the
\* run renders nothing below the form: no question, no completion or
\* export branch, no error.
C6_EmptyLoadRendersNothing ==
  (LastRunStored /\ loaded = <<>>) =>
    /\ session = SessionDefaults
    /\ display = <<>>

\* the empty list has replaced a walkthrough that had an answer
C6_Witness ==
  /\ LastRunStored
  /\ loaded = <<>>
  /\ Len(lastRun.before.answers) > 0

\* C7: apart from a generation that stores a new session, a step leaves
\* the cursor or adds one to it, keeps the earlier answers as a prefix of
\* the answers, and leaves the question list.
C7_ForwardOnly ==
  [][~LastRunStored' =>
       /\ session'.idx \in {session.idx, session.idx + 1}
       /\ IsPrefix(session.answers, session'.answers)
       /\ session'.questions = session.questions]_vars

\* a second answer was appended after the first
C7_Witness ==
  /\ lastRun.event = "click"
  /\ lastRun.outcome = "submitted"
  /\ Len(lastRun.before.answers) = 1
  /\ Len(session.answers) = 2
  /\ session.answers[1] # session.answers[2]

\* C8: in every reachable state 0 <= idx <= len(questions).
C8_CursorInBounds ==
  /\ 0 <= session.idx
  /\ session.idx <= Len(session.questions)

\* a shorter list was loaded when the cursor was beyond its length
C8_Witness ==
  /\ LastRunStored
  /\ lastRun.before.idx > Len(session.questions)
  /\ Len(session.questions) > 0

\* C9: when the reply is the JSON encoding of a list Q of strings, the
\* generation stores exactly Q as the question list of the session.
C9_RoundTrip ==
  \A Q \in encoded :
    (lastRun.event = "generate" /\ LlmCalled(lastRun.outcome)
       /\ lastRun.reply = Reply(json_dumps(PyList(Q), -1)))
    => /\ lastRun.outcome = "stored"
       /\ session.questions = Q

\* the encoding of a list with a repeated question that needs an escape
\* was stored
C9_Witness ==
  /\ LastRunStored
  /\ encoded = {<<PyStr(<<"\\", "\"">>), PyStr(<<"\\", "\"">>)>>}
  /\ Len(session.questions) = 2

\* some piece SubSeq(T, i, j) of the text is a JSON array or object
ContainsJsonContainer(T) ==
  \E i \in 1..Len(T) : \E j \in i..Len(T) :
    LET r == json_loads(SubSeq(T, i, j)) IN r.ok /\ r.val.t \in {"list", "dict"}

\* the text cs has the text T in it
ContainsText(cs, T) ==
  \E i \in 1..(Len(cs) - Len(T) + 1) : SubSeq(cs, i, i + Len(T) - 1) = T

\* an element of the page shows the raw text
Surfaces(d, T) ==
  \E k \in 1..Len(d) : d[k].content.t = "str" /\ ContainsText(d[k].content.v, T)

\* the last run got a reply without a JSON array or object in it
LastReplyHasNoContainer ==
  /\ lastRun.event = "generate"
  /\ LlmCalled(lastRun.outcome)
  /\ ~lastRun.reply.raised
  /\ ~ContainsJsonContainer(lastRun.reply.content)

\* C10 as stated: a reply without a JSON array or object makes the
\* generation fail, the page shows the raw reply, and no session is stored
\* (stated for the replies that are not empty: any page has the empty text
\* in it).
C10_RawTextSurfaced ==
  (LastReplyHasNoContainer /\ lastRun.reply.content # <<>>) =>
    /\ lastRun.outcome = "parse_failed"
    /\ Surfaces(display, lastRun.reply.content)
    /\ session = lastRun.before

\* C10 as amended: a reply without a JSON array or object makes the
\* generation fail and no session is stored; the page shows one error
\* whose text is the fixed prefix and the message of the caught exception
\* (the decoder's message and position, or the not-a-list message), and no
\* element of the page shows the raw reply.
C10_ParseFailureShowsMessageOnly ==
  LastReplyHasNoContainer =>
    /\ lastRun.outcome = "parse_failed"
    /\ session = lastRun.before
    /\ Len(display) = 1
    /\ display[1].kind = "error"
    /\ display[1].text = ParseErrorText(app)
    /\ display[1].exc.type \in {"JSONDecodeError", "ValueError"}
    /\ ~Surfaces(display, lastRun.reply.content)

\* a reply that is a JSON number was rejected by the type check
C10_Witness ==
  /\ LastReplyHasNoContainer
  /\ lastRun.reply.content = <<"1">>
  /\ display[1].exc.type = "ValueError"

\* the positions of the JSON download button on a page
JsonExports(d) ==
  {k \in 1..Len(d) : d[k].kind = "download_button"
                        /\ d[k].text = "Download Q&A JSON"}

\* the keys of a dict, in the order of the document
DictKeys(d) == [k \in 1..Len(d.v) |-> d.v[k][1]]

\* the decoded document r is the list of the answers: as many objects,
\* each with the keys question and answer and nothing else, each equal to
\* the answer at its position
ReproducesAnswers(r, answers) ==
  /\ r.ok
  /\ r.val.t = "list"
  /\ Len(r.val.v) = Len(answers)
  /\ \A i \in 1..Len(answers) :
       /\ r.val.v[i].t = "dict"
       /\ DictKeys(r.val.v[i]) = <<KeyQuestion, KeyAnswer>>
       /\ r.val.v[i] = answers[i]
  /\ r.val = PyList(answers)

\* C11: whenever the JSON export is offered the answers are not empty,
\* and decoding the exported document gives the answers back: a list of
\* objects with exactly the keys question and answer, the i-th of them
\* the i-th loaded question with the i-th submitted text.
C11_ExportRoundTrip ==
  \A k \in JsonExports(display) :
    /\ session.answers # <<>>
    /\ display[k].content.t = "str"
    /\ ReproducesAnswers(json_loads(display[k].content.v), session.answers)
    /\ Len(session.answers) = Len(submitted)
    /\ \A i \in 1..Len(submitted) :
         /\ DictGet(session.answers[i], KeyQuestion) = loaded[i]
         /\ DictGet(session.answers[i], KeyAnswer) = submitted[i]

\* two different answers are exported, to questions with a newline, a
\* non-ASCII character, a backslash and a quote in them
C11_Witness ==
  /\ JsonExports(display) # {}
  /\ session.questions = <<PyStr(<<"\n", "U+00E9">>), PyStr(<<"\\", "\"">>)>>
  /\ Len(session.answers) = 2
  /\ DictGet(session.answers[1], KeyAnswer) # DictGet(session.answers[2], KeyAnswer)

\* the last run got a reply that json.loads does not accept as a whole
LastReplyNotJson ==
  /\ lastRun.event = "generate"
  /\ LlmCalled(lastRun.outcome)
  /\ ~lastRun.reply.raised
  /\ ~json_loads(lastRun.reply.content).ok

\* the part from the first opener to the last closer of the text decodes
\* to the list r.val
ExtractsList(r) == r.ok /\ r.val.t = "list"

\* C12 as stated: when the reply is not JSON as a whole but its part from
\* the first "[" or "{" to the last "]" or "}" decodes to a list, the
\* generation stores that list as the questions.
C12_FallbackExtraction ==
  (LastReplyNotJson /\ ExtractsList(json_loads(json_str(lastRun.reply.content))))
  => /\ lastRun.outcome = "stored"
     /\ session.questions = json_loads(json_str(lastRun.reply.content)).val.v

\* the one error a failed decode of the text T leaves on the page
DecodeErrorPage(a, r) ==
  <<StError(ParseErrorText(a), Exc("JSONDecodeError", r.err, r.end))>>

\* C12 as amended: the question generators decode the whole reply and
\* nothing else; a reply that is not JSON as a whole, a JSON array or
\* object inside wrapper prose included, makes the generation fail with
\* the decoder's error, and no session is stored.
C12_NoFallback ==
  LastReplyNotJson =>
    /\ lastRun.outcome = "parse_failed"
    /\ session = lastRun.before
    /\ display = DecodeErrorPage(app, json_loads(lastRun.reply.content))

\* prose before and after the encoding of two questions: the part between
\* the brackets decodes to the two questions, the generation has failed
C12_Witness ==
  /\ LastReplyNotJson
  /\ lastRun.reply.content =
       <<"a", "\n">> \o json_dumps(PyList(<<PyStr(<<"a">>), PyStr(<<"b", "\"">>)>>), -1)
         \o <<" ", "a">>
  /\ ExtractsList(json_loads(json_str(lastRun.reply.content)))
  /\ Len(json_loads(json_str(lastRun.reply.content)).val.v) = 2
  /\ lastRun.outcome = "parse_failed"

\* the list has an element that is not a string
HasNonString(xs) == \E i \in 1..Len(xs) : xs[i].t # "str"

\* the reply r of the last run decodes to a value of one of the types
LastReplyDecodesTo(r, types) == r.ok /\ r.val.t \in types

\* the last run got a reply from the chain
LastRunGotReply ==
  /\ lastRun.event = "generate"
  /\ LlmCalled(lastRun.outcome)
  /\ ~lastRun.reply.raised

\* C13: a reply that decodes to a list with an element that is not a
\* string makes the generation fail and leaves the session as it was, and
\* the question list of the session never holds anything but strings.
C13_NonStringRejected ==
  /\ ~HasNonString(session.questions)
  /\ (LastRunGotReply
        /\ LastReplyDecodesTo(json_loads(lastRun.reply.content), {"list"})
        /\ HasNonString(json_loads(lastRun.reply.content).val.v))
     => /\ lastRun.outcome = "parse_failed"
        /\ session = lastRun.before

\* the values of the decoded mapping r.val, in the order of the document,
\* are the question list of a new walkthrough
StoresValues(r) ==
  /\ lastRun.outcome = "stored"
  /\ Len(session.questions) = Len(r.val.v)
  /\ \A i \in 1..Len(r.val.v) : session.questions[i] = r.val.v[i][2]
  /\ session.answers = <<>>
  /\ session.idx = 0

\* C14 as stated: a reply that decodes to a mapping is not rejected; the
\* values of the mapping, in declaration order, are stored as the
\* question list.
C14_MappingValuesStored ==
  (LastRunGotReply
     /\ LastReplyDecodesTo(json_loads(lastRun.reply.content), {"dict"}))
  => StoresValues(json_loads(lastRun.reply.content))

\* the page of a reply that mainswapnil1.py rejects for its type
NotAnArrayPage ==
  <<StError("Failed to generate questions: ",
            Exc("ValueError", "LLM did not return a JSON array of questions.", 0))>>

\* C14 as amended: mainswapnil.py stores the values of a decoded mapping,
\* in declaration order, as the question list of a new walkthrough;
\* mainswapnil1.py rejects a mapping as it rejects anything that is not a
\* list: the generation fails with the ValueError and the session stays
\* as it was.
C14_MappingValuesOrRejected ==
  (LastRunGotReply
     /\ LastReplyDecodesTo(json_loads(lastRun.reply.content), {"dict"}))
  => IF app = "mainswapnil"
     THEN StoresValues(json_loads(lastRun.reply.content))
     ELSE /\ lastRun.outcome = "parse_failed"
          /\ session = lastRun.before
          /\ display = NotAnArrayPage

\* mainswapnil.py has stored the two values of a mapping whose keys are
\* not in alphabetical order, over a walkthrough that had an answer
C14_Witness ==
  /\ app = "mainswapnil"
  /\ LastRunStored
  /\ LastReplyDecodesTo(json_loads(lastRun.reply.content), {"dict"})
  /\ session.questions = <<PyStr(<<"b", "\"">>), PyStr(<<"a">>)>>
  /\ Len(lastRun.before.answers) > 0

\* the types of the JSON values that are neither a list nor a mapping
ScalarTypes == {"num", "str", "None", "True", "False", "nan", "inf", "-inf"}

\* C15: a reply that decodes to a number, a boolean, a string or null
\* makes the generation fail with the ValueError of the type check, and
\* the session stays as it was.
C15_ScalarRejected ==
  (LastRunGotReply
     /\ LastReplyDecodesTo(json_loads(lastRun.reply.content), ScalarTypes))
  => /\ lastRun.outcome = "parse_failed"
     /\ session = lastRun.before
     /\ Len(display) = 1
     /\ display[1].kind = "error"
     /\ display[1].exc.type = "ValueError"

\* the reply null was rejected while a walkthrough was half way
C15_Witness ==
  /\ LastRunGotReply
  /\ lastRun.reply.content = <<"n", "u", "l", "l">>
  /\ lastRun.outcome = "parse_failed"
  /\ session.idx = 1
  /\ Len(session.questions) = 2

\* the request did not give a response with status 200
Failed(q) == q.result \in {"network_error", "timeout", "bad_status", "fetch_failed"}

\* the positions in the log of the failed requests for url
FailedRequests(url) ==
  {k \in 1..Len(requests) : requests[k].url = url /\ Failed(requests[k])}

\* the positions in the log of the READMEs that were fetched
FetchedReadmes ==
  {k \in 1..Len(requests) : requests[k].url = "readme" /\ ~Failed(requests[k])}

\* the page reports a request that failed
ShowsFetchError(d) ==
  \E k \in 1..Len(d) :
    /\ d[k].kind = "error"
    /\ d[k].text \in {"Network error while fetching repositories: ",
                       "Failed to fetch repositories. Status "}

\* the generation went on to the API key and the chain
WentOn == lastRun.outcome \in {"no_api_key", "parse_failed", "stored"}

\* C16 as stated: a failed request is the last request of its run, the
\* run reports the failure and stops: the chain is not called and the
\* session stays as it was.
C16_FailedFetchHalts ==
  \A k \in 1..Len(requests) :
    Failed(requests[k]) =>
      /\ k = Len(requests)
      /\ lastRun.outcome = "fetch_failed"
      /\ ShowsFetchError(display)
      /\ ~LlmCalled(lastRun.outcome)
      /\ session = lastRun.before

\* C16 as amended: no request is made twice.  A failed request for the
\* repository list is the only request of its run; the run reports it and
\* stops, and the session stays as it was.  A failed request for a README
\* is not reported and stops nothing: the README of every listed
\* repository is requested, and the generation goes on when one of them
\* was fetched and stops for want of READMEs when none was.  A failed
\* request for the portfolio page is not reported and the generation goes
\* on.
C16_OnlyListingFailureHalts ==
  /\ \A j, k \in 1..Len(requests) :
       (requests[j].url = requests[k].url /\ requests[j].repo = requests[k].repo)
       => j = k
  /\ FailedRequests("repos") # {} =>
       /\ Len(requests) = 1
       /\ lastRun.outcome = "fetch_failed"
       /\ Len(display) = 1
       /\ ShowsFetchError(display)
       /\ session = lastRun.before
  /\ FailedRequests("readme") # {} =>
       /\ Len(requests) = 1 + requests[1].listed
       /\ \A k \in 2..Len(requests) :
            requests[k].url = "readme" /\ requests[k].repo = k - 1
       /\ ~ShowsFetchError(display)
       /\ IF FetchedReadmes # {} THEN WentOn ELSE lastRun.outcome = "no_readmes"
  /\ FailedRequests("portfolio") # {} =>
       /\ ~ShowsFetchError(display)
       /\ WentOn

\* the README of the first repository timed out, the README of the second
\* was fetched, and the generation has stored its questions
C16_Witness ==
  /\ LastRunStored
  /\ Len(requests) = 3
  /\ requests[2].result = "timeout"
  /\ requests[3].result = "ok"
  /\ Len(session.questions) > 0

\* an element of the kind with the text is on the page
Shows(d, kind, text) ==
  \E k \in 1..Len(d) : d[k].kind = kind /\ d[k].text = text

\* the walkthrough of mainswapnil1.py is at its end, FPDF could not be
\* imported, and the last run got as far as the Q&A loop
CompletedWithoutPdf ==
  /\ app = "mainswapnil1"
  /\ ~fpdf
  /\ Truthy(session.questions)
  /\ session.idx >= Len(session.questions)
  /\ ~LastRunFailed

\* C17: without the PDF backend the page of a completed walkthrough has
\* the success message and the JSON download button with the export of
\* the answers, it has no PDF download button, and nothing on it is an
\* error: the warning about the missing package takes the place of the
\* PDF button.
C17_JsonExportWithoutPdf ==
  CompletedWithoutPdf =>
    /\ Shows(display, "success", "All questions answered. Thank you!")
    /\ ~Shows(display, "download_button", "Download Q&A PDF")
    /\ \A k \in 1..Len(display) : display[k].kind # "error"
    /\ JsonExports(display) = {Len(display)}
    /\ display[Len(display)].content =
         PyStr(json_dumps(PyList(session.answers), 2))
    /\ \E k \in 1..Len(display) : display[k].kind = "warning"

\* three answers were given and the page was rendered without the backend
C17_Witness ==
  /\ CompletedWithoutPdf
  /\ Len(session.answers) = 3
  /\ JsonExports(display) # {}
  /\ ~Shows(display, "download_button", "Download Q&A PDF")


=============================================================================
